---- MODULE Spec2Model ----
(***************************************************************************)
(* Model of the batching pipeline of frontend_performance_monitoring:      *)
(* BatchProcessor (src/src/utils/BatchProcessor.js:7-211), its durable     *)
(* store createPersistedMap (same file, 244-503) and the in-flight tracker *)
(* useInFlight (same file, 508-554).                                       *)
(*                                                                         *)
(* JavaScript runs one task at a time, so every action below is one        *)
(* synchronous run of a handler: a public call (enqueue, flushAll), a page *)
(* event listener, the continuation of `await this.processBatch(batch)`    *)
(* (success or rejection), the retry setTimeout callback, or one wake-up   *)
(* of the flushAll polling loop.                                           *)
(***************************************************************************)
EXTENDS Integers, Sequences, FiniteSets, TLC

(* ---------------- bounds of the model ---------------- *)
MaxItems == 4        \* items the producer gets into the processor
MaxTicks == 1        \* times the clock is advanced between handlers
MaxFlush == 1        \* polling flushAll calls that are followed to their end
MaxLiveItems == 3    \* items of the producer in the runs checked for progress
MaxPersisted == 3    \* entries of the persisted array a store is restored from

(* ---------------- inputs ---------------- *)
Keys == {"a", "b"}
NoPage == "none"     \* an item without a pageName field (as in the tests)
StoreKeys == {"", "a", "b"}   \* keys of a store used on its own
Ttls == {0, 1, 2}             \* ttl arguments of isExpired
PastTs == -1                  \* a timestamp persisted before the construction

(* ---------------- constructor options (BatchProcessor.js:19-36) -------- *)
BatchSizeOpt == 2
WideBatchSizeOpt == 3   \* a batch size that lets several items wait in pending
SingleBatchSizeOpt == 1    \* the options of the retry test: every item is a batch
DeepMaxQueueSizeOpt == 2   \* and two batches can wait in the queue
MaxQueueSizeOpt == 1
TtlOpt == 0
MaxRetryOpt == 1

Max(a, b) == IF a >= b THEN a ELSE b

ttl == Max(3000, TtlOpt)

maxEntries == 100    \* default capacity of createPersistedMap
SmallMaxEntries == 2 \* createPersistedMap(storageKey, storageType, 2)
CloseWindow == 500   \* _isCloseInTime
BaseDelay == 10      \* retry delay = 10 * 2^retryCount

VARIABLES
  opts,         \* the options the constructor was called with
  pending,      \* this._pending: sequence of items
  queue,        \* this._queue: sequence of {uuid, batch, retryCount}
  processing,   \* this._processing
  inFlight,     \* the Set of useInFlight()
  store,        \* createPersistedMap: [order, map, accessTime]
  calls,        \* unsettled invocations of processBatchFn (their closures)
  timers,       \* pending retry setTimeout callbacks (their closures)
  polling,      \* number of flushAll calls followed inside their polling loop
  life,         \* "listening": page listeners registered; then destroy()
  now,          \* Date.now()
  ticks,        \* number of Tick steps taken
  nextId,       \* history: id given to the next item that is kept
  tried,        \* history: invocations of processBatchFn per unfinished batch
  okAt,         \* history: time of the last successful delivery per key
  dataCache,    \* the DataCache of initPerfSDK: [queue, onEnqueue]
  got,          \* history: the items each subscriber passed to its processor
  collector,    \* the PerfCollector: [_observers, _unlistenNative, bound]
  ai,           \* the AIAnalyzer: [messages, stored (its sessionStorage item)]
  medium,       \* what the storage holds under storageKey: the parsed array
  pendingPersist, \* createPersistedMap: a deferred write is scheduled
  idle,         \* the number of persist handlers the host has still to run
  touched,      \* history: time of the last set, get or restore per store key
  ev            \* history: the last handler that ran and what it saw

vars == <<opts, pending, queue, processing, inFlight, store, calls, timers,
          polling, life, now, ticks, nextId, tried, okAt, touched, ev,
          medium, pendingPersist, idle, dataCache, got, collector, ai>>

\* the objects of the SDK around the processor
sdkVars == <<dataCache, got, collector>>

\* this.maxRetry
maxRetry == Max(0, opts.maxRetry)

\* this.batchSize
batchSize == Max(1, opts.batchSize)

\* this.maxQueueSize
maxQueueSize == Max(1, opts.maxQueueSize)

(* ---------------- helpers ---------------- *)
Pow2(n) == IF n = 0 THEN 1 ELSE IF n = 1 THEN 2 ELSE IF n = 2 THEN 4 ELSE 8

Abs(x) == IF x < 0 THEN 0 - x ELSE x

SeqToSet(s) == {s[i] : i \in 1..Len(s)}

Take(s, n) == SubSeq(s, 1, IF n < Len(s) THEN n ELSE Len(s))

Drop(s, n) == SubSeq(s, (IF n < Len(s) THEN n ELSE Len(s)) + 1, Len(s))

KeysOf(batch) == {batch[i].key : i \in 1..Len(batch)}

\* a batch is identified by the id of its first item (items are never shared)
Bid(rec) == rec.batch[1].id

(* ---------------- durable store (createPersistedMap) ---------------- *)
EmptyStore == [order |-> <<>>, map |-> <<>>, accessTime |-> <<>>]

StoreHas(s, key) == key \in SeqToSet(s.order)

Remove(seq, x) == SelectSeq(seq, LAMBDA y : y # x)

\* index in s.order of the entry deleteOldestEntry picks: the first entry,
\* in insertion order, with the smallest access time (strict `<`)
OldestIdx(s) ==
  CHOOSE i \in 1..Len(s.order) :
    /\ \A j \in 1..Len(s.order) : s.accessTime[s.order[i]] <= s.accessTime[s.order[j]]
    /\ \A j \in 1..(i - 1) : s.accessTime[s.order[j]] > s.accessTime[s.order[i]]

StoreWithout(s, key) ==
  LET o == Remove(s.order, key)
  IN [order |-> o,
      map |-> [k \in SeqToSet(o) |-> s.map[k]],
      accessTime |-> [k \in SeqToSet(o) |-> s.accessTime[k]]]

deleteOldestEntry(s) ==
  IF Len(s.order) = 0 THEN s
  ELSE LET oldestKey == s.order[OldestIdx(s)]
       IN IF oldestKey # "" THEN StoreWithout(s, oldestKey) ELSE s

\* map.set(key, value); accessTime.set(key, t)
StorePut(s, key, value, t) ==
  LET o == IF StoreHas(s, key) THEN s.order ELSE Append(s.order, key)
  IN [order |-> o,
      map |-> [k \in SeqToSet(o) |-> IF k = key THEN value ELSE s.map[k]],
      accessTime |-> [k \in SeqToSet(o) |-> IF k = key THEN t ELSE s.accessTime[k]]]

\* set(key, value) at time t
StoreSet(s, key, value, t, cap) ==
  StorePut(IF ~StoreHas(s, key) /\ Len(s.order) >= cap
           THEN deleteOldestEntry(s) ELSE s,
           key, value, t)

\* get(key): the store after the call
StoreGet(s, key, t) ==
  IF StoreHas(s, key) THEN [s EXCEPT !.accessTime[key] = t] ELSE s

\* delete(key)
StoreDelete(s, key) == IF StoreHas(s, key) THEN StoreWithout(s, key) ELSE s

\* entries of a persisted array: [k, v, ts], [k, v] and anything else
Triple(k, v, ts) == [kind |-> "triple", k |-> k, v |-> v, ts |-> ts]

Pair(k, v) == [kind |-> "pair", k |-> k, v |-> v, ts |-> 0]

Malformed == [kind |-> "bad", k |-> "", v |-> 0, ts |-> 0]

RECURSIVE Restore_givesUp(_, _, _)
Restore_givesUp(arr, s, t) ==
  IF arr = <<>> THEN s
  ELSE LET e == Head(arr)
       IN IF e.kind = "bad" THEN s
          ELSE Restore_givesUp(Tail(arr),
                               StorePut(s, e.k, e.v, IF e.kind = "triple" THEN e.ts ELSE t),
                               t)

RECURSIVE Restore(_, _, _)
\* the forEach over the parsed array, at construction time t
Restore(arr, s, t) ==
  IF arr = <<>> THEN s
  ELSE LET e == Head(arr)
       IN Restore(Tail(arr),
                  IF e.kind = "bad" THEN s
                  ELSE StorePut(s, e.k, e.v, IF e.kind = "triple" THEN e.ts ELSE t),
                  t)

isExpired_strict(s, key, ttl_, t) ==
  IF ~StoreHas(s, key) THEN TRUE
  ELSE t - s.accessTime[key] > ttl_

isExpired(s, key, ttl_, t) ==
  IF ~StoreHas(s, key) THEN TRUE
  ELSE t - s.accessTime[key] >= ttl_

RECURSIVE StoreSetAll(_, _, _, _)
\* keys.forEach(key => this._store.set(key, now)) over the batch's items
StoreSetAll(s, batch, t, cap) ==
  IF batch = <<>> THEN s
  ELSE StoreSetAll(StoreSet(s, batch[1].key, t, t, cap), Tail(batch), t, cap)

(* ---------------- in-flight tracker (useInFlight) ---------------- *)
isInFlight(set, key) == key \in set

markInFlight(set, keys) == set \cup keys

clearInFlight(set, keys) == set \ keys

(* ---------------- BatchProcessor ---------------- *)
\* the processor's fields, as one record the synchronous calls pass along
P == [pending |-> pending, queue |-> queue, processing |-> processing,
      inFlight |-> inFlight, calls |-> calls, tried |-> tried]

SetP(p) ==
  /\ pending' = p.pending
  /\ queue' = p.queue
  /\ processing' = p.processing
  /\ inFlight' = p.inFlight
  /\ calls' = p.calls
  /\ tried' = p.tried

_isCloseInTime(ts1, ts2) == Abs(ts1 - ts2) < CloseWindow

\* _processNext up to `await this.processBatch(batch)`
_processNext(p) ==
  LET h == Head(p.queue)
      b == Bid(h)
      n == IF b \in DOMAIN p.tried THEN p.tried[b] ELSE 0
  IN [p EXCEPT !.processing = TRUE,
               !.queue = Tail(p.queue),
               !.calls = p.calls \cup {h},
               !.tried = [x \in (DOMAIN p.tried) \cup {b} |->
                            IF x = b THEN n + 1 ELSE p.tried[x]]]

\* variant: the scheduler forgets the delivery lock
_flushNext_noLock(p) ==
  IF Len(p.queue) = 0 THEN p ELSE _processNext(p)

_flushNext(p) ==
  IF p.processing \/ Len(p.queue) = 0 THEN p ELSE _processNext(p)

\* variant: the queue-full test is off by one
QueueFull_gt(p) == Len(p.queue) > maxQueueSize

QueueFull(p) == Len(p.queue) >= maxQueueSize

\* variant: the keys are marked in flight before the queue-full test
_enqueueBatch_marksFirst(p, batch, by, t) ==
  LET p1 == [p EXCEPT !.inFlight = markInFlight(p.inFlight, KeysOf(batch))]
  IN IF QueueFull(p1) THEN p1
     ELSE _flushNext([p1 EXCEPT
            !.queue = Append(p1.queue,
                        [uuid |-> t, batch |-> batch, retryCount |-> 0, by |-> by])])

_enqueueBatch(p, batch, by, t) ==
  IF QueueFull(p) THEN p
  ELSE _flushNext([p EXCEPT
         !.inFlight = markInFlight(p.inFlight, KeysOf(batch)),
         !.queue = Append(p.queue,
                     [uuid |-> t, batch |-> batch, retryCount |-> 0, by |-> by])])

HasNav(item) == item.nav

\* variant: the coalescing loop starts at the second entry
CoalesceIdx_from2(p, item) ==
  LET hits == {i \in 2..Len(p.pending) :
                 /\ p.pending[i].pageName = item.key
                 /\ _isCloseInTime(p.pending[i].timestamp, item.timestamp)}
  IN IF hits = {} THEN 0 ELSE CHOOSE i \in hits : \A j \in hits : i <= j

\* index of the first pending entry the coalescing loop matches, 0 if none
CoalesceIdx(p, item) ==
  LET hits == {i \in 1..Len(p.pending) :
                 /\ p.pending[i].pageName = item.key
                 /\ _isCloseInTime(p.pending[i].timestamp, item.timestamp)}
  IN IF hits = {} THEN 0 ELSE CHOOSE i \in hits : \A j \in hits : i <= j

\* variant: a batch is formed one item late
BatchReady_gt(p) == Len(p.pending) > batchSize

\* enough items are pending to form a batch
BatchReady(p) == Len(p.pending) >= batchSize

\* variant: the in-flight filter is missing
Admitted_noInFlight(p, s, item, t) == isExpired(s, item.key, ttl, t)

\* TTL & in-flight filter
Admitted(p, s, item, t) ==
  /\ isExpired(s, item.key, ttl, t)
  /\ ~isInFlight(p.inFlight, item.key)

\* variant: a snapshot with navigation fields always replaces the old one
Replaces_always(old, item) == HasNav(item)

\* !oldHasNav && newHasNav
Replaces(old, item) == ~HasNav(old) /\ HasNav(item)

enqueue(p, s, item, t) ==
  LET i == CoalesceIdx(p, item)
  IN IF i # 0
     THEN IF Replaces(p.pending[i], item)
          THEN [p EXCEPT !.pending[i] = item]
          ELSE p
     ELSE IF ~Admitted(p, s, item, t) THEN p
     ELSE LET p1 == [p EXCEPT !.pending = Append(p.pending, item)]
          IN IF BatchReady(p1)
             THEN _enqueueBatch([p1 EXCEPT !.pending = Drop(p1.pending, batchSize)],
                                Take(p1.pending, batchSize), "enqueue", t)
             ELSE p1

\* variant: only full batches are packed
FlushDrain_fullOnly(p, t) ==
  IF Len(p.pending) < batchSize THEN p
  ELSE _enqueueBatch([p EXCEPT !.pending = Drop(p.pending, batchSize)],
                     Take(p.pending, batchSize), "flushAll", t)

RECURSIVE FlushDrain(_, _)
\* first loop of flushAll: pack what is left in pending
FlushDrain(p, t) ==
  IF Len(p.pending) = 0 THEN p
  ELSE FlushDrain(
         _enqueueBatch([p EXCEPT !.pending = Drop(p.pending, batchSize)],
                       Take(p.pending, batchSize), "flushAll", t), t)

\* loop condition of the second loop of flushAll
FlushWaiting(p) == p.processing \/ Len(p.queue) > 0

\* body of the second loop, up to its `await`
FlushKick(p) ==
  IF ~p.processing /\ Len(p.queue) > 0 THEN _flushNext(p) ELSE p

(* ---------------- settling a delivery ---------------- *)
\* history: a finished batch is no longer counted
Forget(t, b) == [x \in (DOMAIN t) \ {b} |-> t[x]]

\* variant: the try branch does not go on with the next batch
OnSuccess_stops(p, rec) ==
  [p EXCEPT !.calls = p.calls \ {rec},
            !.tried = Forget(p.tried, Bid(rec)),
            !.inFlight = clearInFlight(p.inFlight, KeysOf(rec.batch)),
            !.processing = FALSE]

\* variant: the try branch leaves the in-flight marks in place
OnSuccess_keepMarks(p, rec) ==
  _flushNext([p EXCEPT !.calls = p.calls \ {rec},
                       !.tried = Forget(p.tried, Bid(rec)),
                       !.processing = FALSE])

\* what the try branch does to the processor after the await
OnSuccess(p, rec) ==
  _flushNext([p EXCEPT !.calls = p.calls \ {rec},
                       !.tried = Forget(p.tried, Bid(rec)),
                       !.inFlight = clearInFlight(p.inFlight, KeysOf(rec.batch)),
                       !.processing = FALSE])

\* variant: one retry too many
RetryAllowed_le(retryCount) == retryCount <= maxRetry

RetryAllowed(retryCount) == retryCount < maxRetry

\* variant: the same delay before every retry
RetryDelay_fixed(retryCount) == BaseDelay

RetryDelay(retryCount) == BaseDelay * Pow2(retryCount)

\* the closure of the setTimeout callback of the catch branch, set at time t
RetryClosure(rec, t) ==
  [uuid |-> rec.uuid, batch |-> rec.batch, retryCount |-> rec.retryCount,
   by |-> rec.by, due |-> t + RetryDelay(rec.retryCount)]

\* variant: the marks of the failed batch stay until its last attempt
OnRetryLater_keepMarks(p, rec) == [p EXCEPT !.calls = p.calls \ {rec}]

\* variant: the lock is released as soon as the attempt has failed
OnRetryLater_release(p, rec) ==
  _flushNext([p EXCEPT !.calls = p.calls \ {rec},
                       !.inFlight = clearInFlight(p.inFlight, KeysOf(rec.batch)),
                       !.processing = FALSE])

\* what the catch branch does to the processor when it schedules a retry
OnRetryLater(p, rec) ==
  [p EXCEPT !.calls = p.calls \ {rec},
            !.inFlight = clearInFlight(p.inFlight, KeysOf(rec.batch))]

\* variant: giving up forgets to release the lock
OnGiveUp_keepLock(p, rec) ==
  [p EXCEPT !.calls = p.calls \ {rec},
            !.tried = Forget(p.tried, Bid(rec)),
            !.inFlight = clearInFlight(p.inFlight, KeysOf(rec.batch))]

\* what the catch branch does to the processor when it gives up
OnGiveUp(p, rec) ==
  _flushNext([p EXCEPT !.calls = p.calls \ {rec},
                       !.tried = Forget(p.tried, Bid(rec)),
                       !.inFlight = clearInFlight(p.inFlight, KeysOf(rec.batch)),
                       !.processing = FALSE])

\* variant: the call of processBatch is outside the try block of a plain
\* function: the exception leaves _processNext and everything above it
SyncThrow_uncaught(p, old, tms, t) ==
  [p |-> [p EXCEPT !.calls = old], tms |-> tms, threw |-> p.calls # old]

RECURSIVE SyncThrow(_, _, _, _)
\* processBatch(batch) throws instead of returning a promise: the exception
\* is raised in the try block of _processNext, so the catch branch runs in
\* the same handler, and again for every batch its _flushNext starts;
\* old: the invocations that were unsettled before the handler
SyncThrow(p, old, tms, t) ==
  IF p.calls = old THEN [p |-> p, tms |-> tms, threw |-> FALSE]
  ELSE LET rec == CHOOSE r \in p.calls \ old : TRUE
       IN IF RetryAllowed(rec.retryCount)
          THEN [p |-> OnRetryLater(p, rec),
                tms |-> tms \cup {RetryClosure(rec, t)}, threw |-> FALSE]
          ELSE SyncThrow(OnGiveUp(p, rec), old, tms, t)

\* the deliveries a handler has started, with either kind of processBatchFn
Delivering(p, old, tms, t, throws) ==
  IF throws THEN SyncThrow(p, old, tms, t)
  ELSE [p |-> p, tms |-> tms, threw |-> FALSE]

\* variant: the retried batch is put at the back of the queue
RetryInsert_back(p, tm) ==
  _flushNext([p EXCEPT
     !.processing = FALSE,
     !.queue = Append(p.queue, [uuid |-> tm.uuid, batch |-> tm.batch,
                                retryCount |-> tm.retryCount + 1, by |-> tm.by])])

\* what the retry callback does to the processor
RetryInsert(p, tm) ==
  _flushNext([p EXCEPT
     !.processing = FALSE,
     !.queue = <<[uuid |-> tm.uuid, batch |-> tm.batch,
                  retryCount |-> tm.retryCount + 1, by |-> tm.by]>> \o p.queue])

(* ---------------- initial state ---------------- *)
Ev(op, key, a, b) ==
  [op |-> op, key |-> key, a |-> a, b |-> b, nav |-> FALSE, threw |-> FALSE,
   n |-> 0]

\* the timestamp the restore gives key k from the array arr at time t
RestoredTs(arr, k, t) ==
  LET idx == {i \in 1..Len(arr) : arr[i].kind # "bad" /\ arr[i].k = k}
  IN IF idx = {} THEN 0
     ELSE LET i == CHOOSE x \in idx : \A y \in idx : y <= x
          IN IF arr[i].kind = "triple" THEN arr[i].ts ELSE t

(* ---------------- the objects initPerfSDK creates ---------------- *)
\* new DataCache({ onEnqueue: () => {} })
NewDataCache == [queue |-> <<>>, onEnqueue |-> "noop"]

\* the keys of PerfCollector._observers
ObserverNames ==
  {"hardVitals", "resource", "longTask", "fps", "memory", "cls", "webVitals",
   "spaRoute"}

\* the observers the constructor starts
StartedObservers == {"hardVitals", "resource", "longTask", "fps", "memory", "cls"}

\* new PerfCollector(onPageComplete, options); _observers: which slots hold
\* an observer, _unlistenNative: it is a function, running: the observers
\* and listeners that are observing
NewPerfCollector ==
  [_observers |-> [n \in ObserverNames |-> n \in StartedObservers],
   _unlistenNative |-> FALSE,
   running |-> StartedObservers]

SystemMessage == [role |-> "system", of |-> 0]

\* new AIAnalyzer({ onSuccess, maxMessages, ... }) on an empty
\* sessionStorage; onSuccess: the option is a function
NewAIAnalyzer(onSuccess, maxMessages) ==
  [messages |-> <<SystemMessage>>, stored |-> <<SystemMessage>>,
   onSuccess |-> onSuccess, maxMessages |-> maxMessages]

MaxMessagesOpt == 20

\* the processor and its store after
\* `new BatchProcessor({ batchSize: bs, maxQueueSize: mq, ... })` on a storage
\* that holds the array arr, beside the AIAnalyzer `analyzer`; o: the options
BuiltOpts(o, arr, analyzer) ==
  /\ opts = o
  /\ touched = [k \in StoreKeys |-> RestoredTs(arr, k, 0)]
  /\ pending = <<>>
  /\ queue = <<>>
  /\ processing = FALSE
  /\ inFlight = {}
  /\ store = Restore(arr, EmptyStore, 0)
  /\ calls = {}
  /\ timers = {}
  /\ polling = 0
  /\ life = "listening"
  /\ now = 0
  /\ ticks = 0
  /\ nextId = 1
  /\ tried = <<>>
  /\ okAt = [k \in Keys |-> -1]
  /\ ev = Ev("init", NoPage, FALSE, FALSE)
  /\ pendingPersist = FALSE
  /\ idle = 0
  /\ dataCache = NewDataCache
  /\ got = [reporter |-> <<>>, ai |-> <<>>, subscribed |-> {}]
  /\ collector = NewPerfCollector
  /\ ai = analyzer

\* the same with the maxRetry of the tests
BuiltWith(bs, mq, arr, analyzer) ==
  BuiltOpts([batchSize |-> bs, maxQueueSize |-> mq, maxRetry |-> MaxRetryOpt],
            arr, analyzer)

\* the same beside an AIAnalyzer with the default options and a callback
Built(bs, mq, arr) ==
  BuiltWith(bs, mq, arr, NewAIAnalyzer(TRUE, MaxMessagesOpt))

\* the state after that construction: the storage still holds arr
ConstructOn(bs, mq, arr) == Built(bs, mq, arr) /\ medium = arr

\* the same on an empty storage
Construct(bs, mq) == ConstructOn(bs, mq, <<>>)

Init == Construct(BatchSizeOpt, MaxQueueSizeOpt)

(* ---------------- actions ---------------- *)
\* time passes
Tick(d) ==
  /\ ticks < MaxTicks
  /\ ticks' = ticks + 1
  /\ now' = now + d
  /\ UNCHANGED <<sdkVars, ai, opts, medium, pendingPersist, idle, touched, pending, queue, processing, inFlight, store, calls, timers,
                 polling, life, nextId, tried, okAt, ev>>

\* key was delivered successfully less than ttl ago
InWindow(key) == okAt[key] >= 0 /\ now < okAt[key] + ttl

\* the items held anywhere in the processor
ItemsIn(p, tms) ==
  SeqToSet(p.pending)
    \cup UNION {SeqToSet(p.queue[i].batch) : i \in 1..Len(p.queue)}
    \cup UNION {SeqToSet(r.batch) : r \in p.calls}
    \cup UNION {SeqToSet(r.batch) : r \in tms}

\* producer: bp.enqueue(item); ev.a: key was in flight, ev.b: key in its
\* window, ev.nav: the item carries LCP or FCP, ev.threw: the call threw;
\* throws: processBatchFn throws when it is called in this handler
EnqueueItem(key, pageName, nav, throws) ==
  /\ nextId <= MaxItems
  /\ LET item == [id |-> nextId, key |-> key, pageName |-> pageName,
                  timestamp |-> now, nav |-> nav]
         p1 == enqueue(P, store, item, now)
         r == Delivering(p1, calls, timers, now, throws)
     IN /\ SetP(r.p)
        /\ timers' = r.tms
        /\ nextId' = IF p1 # P THEN nextId + 1 ELSE nextId
        /\ ev' = [Ev("enqueue", key, isInFlight(inFlight, key), InWindow(key))
                    EXCEPT !.nav = nav, !.threw = r.threw]
  /\ UNCHANGED <<sdkVars, opts, medium, pendingPersist, idle, touched, store, polling, life, now, ticks, okAt>>

\* the same with a delivery function that keeps no state of its own
EnqueueWith(key, pageName, nav, throws) ==
  EnqueueItem(key, pageName, nav, throws) /\ UNCHANGED ai

\* the same with a processBatchFn that returns a promise
Enqueue(key, pageName, nav) == EnqueueWith(key, pageName, nav, FALSE)

\* flushAll(): first loop, then the first test of the polling loop;
\* ev.a: the call resolved, ev.b: pending was not empty at the call.
\* Any number of calls may poll; MaxFlush of them are followed to their end.
FlushStart(op) ==
  /\ LET p1 == FlushDrain(P, now)
     IN IF FlushWaiting(p1)
        THEN /\ SetP(FlushKick(p1))
             /\ polling' = IF polling < MaxFlush THEN polling + 1 ELSE polling
             /\ ev' = Ev(op, NoPage, FALSE, Len(pending) > 0)
        ELSE /\ SetP(p1)
             /\ polling' = polling
             /\ ev' = Ev(op, NoPage, TRUE, Len(pending) > 0)
  /\ UNCHANGED <<sdkVars, ai, opts, medium, pendingPersist, idle, touched, store, timers, life, now, ticks, nextId, okAt>>

FlushAll == FlushStart("flushAll")

\* a page event is dispatched and no listener of the processor runs
NoListener(op) ==
  /\ ev' = Ev(op, NoPage, FALSE, FALSE)
  /\ UNCHANGED <<sdkVars, ai, opts, medium, pendingPersist, idle, touched, pending, queue, processing, inFlight, store, calls, timers,
                 polling, life, now, ticks, nextId, tried, okAt>>

BeforeUnload_registered == FlushStart("beforeunload")

\* window 'beforeunload': this._onBeforeUnload, while it is registered
BeforeUnload ==
  IF life = "listening" THEN FlushStart("beforeunload")
  ELSE NoListener("beforeunload")

\* variant: the listener flushes on no visibility state
IsHidden_never(visibilityState) == FALSE

\* document.visibilityState === 'hidden'
IsHidden(visibilityState) == visibilityState = "hidden"

\* document 'visibilitychange': this._onVisibilityChange, while it is registered
VisibilityChange(visibilityState) ==
  IF life = "listening" /\ IsHidden(visibilityState)
  THEN FlushStart(visibilityState)
  ELSE NoListener(visibilityState)

\* destroy() up to the first test of the polling loop of its flushAll; when
\* that flushAll resolves at once, the rest of destroy() runs as a microtask
\* before any other handler
DestroyStart ==
  /\ life = "listening"
  /\ LET p1 == FlushDrain(P, now)
     IN IF FlushWaiting(p1)
        THEN /\ SetP(FlushKick(p1))
             /\ life' = "destroying"
        ELSE /\ SetP([p1 EXCEPT !.pending = <<>>, !.queue = <<>>])
             /\ life' = "destroyed"
  /\ ev' = Ev("destroy", NoPage, FALSE, Len(pending) > 0)
  /\ UNCHANGED <<sdkVars, ai, opts, medium, pendingPersist, idle, touched, store, timers, polling, now, ticks, nextId, okAt>>

\* the flushAll of destroy() wakes up; once it resolves destroy() clears
\* the pending list and the queue
DestroyPoll ==
  /\ life = "destroying"
  /\ IF FlushWaiting(P)
     THEN /\ SetP(FlushKick(P))
          /\ life' = life
          /\ ev' = Ev("destroyPoll", NoPage, FALSE, FALSE)
     ELSE /\ SetP([P EXCEPT !.pending = <<>>, !.queue = <<>>])
          /\ life' = "destroyed"
          /\ ev' = Ev("destroyPoll", NoPage, TRUE, FALSE)
  /\ UNCHANGED <<sdkVars, ai, opts, medium, pendingPersist, idle, touched, store, timers, polling, now, ticks, nextId, okAt>>

\* the 50 ms sleep of a polling flushAll is over: test the loop again
FlushPoll ==
  /\ polling > 0
  /\ IF FlushWaiting(P)
     THEN /\ SetP(FlushKick(P))
          /\ polling' = polling
          /\ ev' = Ev("poll", NoPage, FALSE, FALSE)
     ELSE /\ SetP(P)
          /\ polling' = polling - 1
          /\ ev' = Ev("poll", NoPage, TRUE, FALSE)
  /\ UNCHANGED <<sdkVars, ai, opts, medium, pendingPersist, idle, touched, store, timers, life, now, ticks, nextId, okAt>>

\* variant: every call schedules a handler of its own
schedulePersist_each(w) ==
  [pendingPersist |-> TRUE, idle |-> w.idle + 1]

\* schedulePersist() on w = [pendingPersist, idle]
schedulePersist(w) ==
  IF w.pendingPersist THEN w
  ELSE [pendingPersist |-> TRUE, idle |-> w.idle + 1]

\* schedulePersist() called n times in one handler
RECURSIVE Scheduled(_, _)
Scheduled(w, n) == IF n = 0 THEN w ELSE Scheduled(schedulePersist(w), n - 1)

\* the flag and the handlers as they are now
Writer == [pendingPersist |-> pendingPersist, idle |-> idle]

\* the flag and the handlers become w
SetWriter(w) == pendingPersist' = w.pendingPersist /\ idle' = w.idle

\* processBatchFn resolved: the try branch of _processNext; ev.n: the HTTP
\* status the delivery function saw (0: none)
Resolved(rec, status) ==
  /\ rec \in calls
  /\ SetP(OnSuccess(P, rec))
  /\ store' = StoreSetAll(store, rec.batch, now, maxEntries)
  /\ okAt' = [k \in Keys |-> IF k \in KeysOf(rec.batch) THEN now ELSE okAt[k]]
  /\ SetWriter(Scheduled(Writer, Len(rec.batch)))
  /\ ev' = [Ev("success", NoPage, FALSE, FALSE) EXCEPT !.n = status]
  /\ UNCHANGED <<sdkVars, opts, medium, touched, timers, polling, life, now, ticks, nextId>>

\* the same with a delivery function that keeps no state of its own
SuccessWith(rec, status) ==
  Resolved(rec, status) /\ UNCHANGED ai

\* the same for a delivery function that does no HTTP request of its own
Success(rec) == SuccessWith(rec, 0)

\* processBatchFn rejected: the catch branch of _processNext; ev.n: the HTTP
\* status the delivery function saw (0: none)
Rejected(rec, status) ==
  /\ rec \in calls
  /\ IF RetryAllowed(rec.retryCount)
     THEN /\ SetP(OnRetryLater(P, rec))
          /\ timers' = timers \cup {RetryClosure(rec, now)}
          /\ ev' = [Ev("retryLater", NoPage, FALSE, FALSE) EXCEPT !.n = status]
     ELSE /\ SetP(OnGiveUp(P, rec))
          /\ timers' = timers
          /\ ev' = [Ev("giveUp", NoPage, FALSE, FALSE) EXCEPT !.n = status]
  /\ UNCHANGED <<sdkVars, opts, medium, pendingPersist, idle, touched, store, polling, life, now, ticks, nextId, okAt>>

\* the same with a delivery function that keeps no state of its own
FailureWith(rec, status) ==
  Rejected(rec, status) /\ UNCHANGED ai

\* the same for a delivery function that does no HTTP request of its own
Failure(rec) == FailureWith(rec, 0)

\* the setTimeout callback of the catch branch runs, not before its delay;
\* throws: processBatchFn throws when it is called in this handler
RetryFires(tm, throws) ==
  /\ tm \in timers
  /\ now' = Max(now, tm.due)
  /\ LET r == Delivering(RetryInsert(P, tm), calls, timers \ {tm},
                         Max(now, tm.due), throws)
     IN /\ SetP(r.p)
        /\ timers' = r.tms
        /\ ev' = [Ev("retry", NoPage, FALSE, FALSE) EXCEPT !.threw = r.threw]
  /\ UNCHANGED <<sdkVars, opts, medium, pendingPersist, idle, touched, store, polling, life, ticks, nextId, okAt>>

\* the same with a delivery function that keeps no state of its own
RetryTimerWith(tm, throws) ==
  RetryFires(tm, throws) /\ UNCHANGED ai

\* the same with a processBatchFn that returns a promise
RetryTimer(tm) == RetryTimerWith(tm, FALSE)

\* items as the tests build them: { key, timestamp }
EnqueuePlain(key) == Enqueue(key, NoPage, FALSE)

\* items as Reporter and AIAnalyzer build them: { key: snapshot.pageName, ...snapshot }
EnqueueSnapshot(key, nav) == Enqueue(key, key, nav)

\* Items built as in the tests never coalesce, so before the first
\* successful delivery nothing is compared with the clock: the clock is
\* advanced only once the store holds a delivery time.
Next ==
  \/ store.order # <<>> /\ Tick(ttl)
  \/ \E key \in Keys : EnqueuePlain(key)
  \/ FlushAll
  \/ FlushPoll
  \/ \E rec \in calls : Success(rec)
  \/ \E rec \in calls : Failure(rec)
  \/ \E tm \in timers : RetryTimer(tm)

Spec == Init /\ [][Next]_vars

\* the enqueue and delivery paths fed with page snapshots, which can coalesce
NextSnap ==
  \/ Tick(CloseWindow)
  \/ \E key \in Keys, nav \in BOOLEAN : EnqueueSnapshot(key, nav)
  \/ \E rec \in calls : Success(rec)
  \/ \E rec \in calls : Failure(rec)
  \/ \E tm \in timers : RetryTimer(tm)

SpecSnap == Init /\ [][NextSnap]_vars

\* a processor with batchSize 3 fed with items of both shapes
InitPend == Construct(WideBatchSizeOpt, MaxQueueSizeOpt)

NextPend ==
  \/ Tick(CloseWindow)
  \/ \E key \in Keys, nav \in BOOLEAN :
       \E pageName \in {key, NoPage} : Enqueue(key, pageName, nav)
  \/ \E rec \in calls : Success(rec)
  \/ \E rec \in calls : Failure(rec)
  \/ \E tm \in timers : RetryTimer(tm)

SpecPend == InitPend /\ [][NextPend]_vars

\* a processor with batchSize 1 and maxQueueSize 2, as in the retry test
InitDeep == Construct(SingleBatchSizeOpt, DeepMaxQueueSizeOpt)

NextDeep ==
  \/ \E key \in Keys : EnqueuePlain(key)
  \/ FlushAll
  \/ FlushPoll
  \/ \E rec \in calls : Success(rec)
  \/ \E rec \in calls : Failure(rec)
  \/ \E tm \in timers : RetryTimer(tm)

SpecDeep == InitDeep /\ [][NextDeep]_vars

(* ---------------- DataCache, its subscribers, PerfCollector ---------------- *)
\* an SDK object acts: the processor and its store stay as they are
SdkOnly ==
  UNCHANGED <<opts, pending, queue, processing, inFlight, store, calls, timers,
              polling, life, now, ticks, nextId, tried, okAt, touched, medium,
              pendingPersist, idle, ai>>

\* { key: snapshot.pageName, ...snapshot }
ToItem(snapshot) == snapshot @@ [key |-> snapshot.pageName]

\* reporter.subscribe(dataCache)
SubscribeReporter ==
  /\ "reporter" \notin got.subscribed
  /\ dataCache' = [dataCache EXCEPT !.onEnqueue = "reporter"]
  /\ got' = [got EXCEPT !.subscribed = @ \cup {"reporter"}]
  /\ ev' = Ev("subscribe", "reporter", FALSE, FALSE)
  /\ UNCHANGED collector
  /\ SdkOnly

\* aiAnalyzer.subscribe(dataCache)
SubscribeAI ==
  /\ "ai" \notin got.subscribed
  /\ dataCache' = [dataCache EXCEPT !.onEnqueue = "ai"]
  /\ got' = [got EXCEPT !.subscribed = @ \cup {"ai"}]
  /\ ev' = Ev("subscribe", "ai", FALSE, FALSE)
  /\ UNCHANGED collector
  /\ SdkOnly

\* the callback in dataCache.onEnqueue is called with the snapshot
OnEnqueue(g, onEnqueue, snapshot) ==
  IF onEnqueue = "reporter"
  THEN [g EXCEPT !.reporter = Append(@, ToItem(snapshot))]
  ELSE IF onEnqueue = "ai"
  THEN [g EXCEPT !.ai = Append(@, ToItem(snapshot))]
  ELSE g

\* the collector is bound to no router yet and was not destroyed
Unbound ==
  /\ DOMAIN collector._observers # {}
  /\ ~collector._observers["spaRoute"]
  /\ ~collector._unlistenNative

\* perf.bindRouter(router)
BindRouter ==
  /\ Unbound
  /\ collector' = [collector EXCEPT !._observers["spaRoute"] = TRUE,
                                    !.running = @ \cup {"spaRoute"}]
  /\ ev' = Ev("bindRouter", NoPage, FALSE, FALSE)
  /\ UNCHANGED <<dataCache, got>>
  /\ SdkOnly

\* perf.bindNativeListener()
BindNativeListener ==
  /\ Unbound
  /\ collector' = [collector EXCEPT !._unlistenNative = TRUE,
                                    !.running = @ \cup {"native"}]
  /\ ev' = Ev("bindNativeListener", NoPage, FALSE, FALSE)
  /\ UNCHANGED <<dataCache, got>>
  /\ SdkOnly

\* a route change reaches the collector's callback: unless the sampling
\* skips it, the snapshot goes to dataCache.enqueue; ev.a: it was sampled
RouteChange(page, sampled) ==
  /\ collector.running \cap {"spaRoute", "native"} # {}
  /\ Len(dataCache.queue) < MaxItems
  /\ LET snapshot == [pageName |-> page]
     IN IF sampled
        THEN /\ dataCache' = [dataCache EXCEPT !.queue = Append(@, snapshot)]
             /\ got' = OnEnqueue(got, dataCache.onEnqueue, snapshot)
        ELSE UNCHANGED <<dataCache, got>>
  /\ ev' = Ev("route", page, sampled, FALSE)
  /\ UNCHANGED collector
  /\ SdkOnly

\* perf.destroy(); ev.threw: the call threw
PerfDestroy ==
  /\ IF collector._unlistenNative
     THEN /\ collector' =
               [collector EXCEPT
                  !.running = {},
                  !._observers = [n \in {} |-> FALSE]]
          /\ ev' = Ev("perfDestroy", NoPage, FALSE, FALSE)
     ELSE /\ collector' = collector
          /\ ev' = [Ev("perfDestroy", NoPage, FALSE, FALSE) EXCEPT !.threw = TRUE]
  /\ UNCHANGED <<dataCache, got>>
  /\ SdkOnly

NextSdk ==
  \/ SubscribeReporter
  \/ SubscribeAI
  \/ BindRouter
  \/ BindNativeListener
  \/ \E page \in Keys, sampled \in BOOLEAN : RouteChange(page, sampled)
  \/ PerfDestroy

SpecSdk == Init /\ [][NextSdk]_vars

(* ---------------- the Reporter's delivery function ---------------- *)
HttpStatuses == {200, 500}

\* how `await fetch(url, ...)` ends: it rejects (network or transport
\* failure) or resolves with a response of some status
FetchResults ==
  {[kind |-> "rejected", status |-> 0]}
    \cup {[kind |-> "response", status |-> st] : st \in HttpStatuses}

\* Response.ok
ResOk(status) == status >= 200 /\ status <= 299

\* the Reporter's processBatchFn resolves (TRUE) or rejects (FALSE)
ReporterFn(res) == res.kind = "response"

\* the fetch of the batch in delivery has ended with res
ReportSettles(rec, res) ==
  IF ReporterFn(res) THEN SuccessWith(rec, res.status)
  ELSE FailureWith(rec, res.status)

NextReport ==
  \/ \E key \in Keys : EnqueuePlain(key)
  \/ \E rec \in calls, res \in FetchResults : ReportSettles(rec, res)
  \/ \E tm \in timers : RetryTimer(tm)

SpecReport == Init /\ [][NextReport]_vars

(* ---------------- several retries ---------------- *)
LongMaxRetryOpt == 2   \* a maxRetry that lets a batch be retried twice

NextBackoff ==
  \/ Tick(BaseDelay)
  \/ \E key \in Keys : EnqueuePlain(key)
  \/ \E rec \in calls : Success(rec)
  \/ \E rec \in calls : Failure(rec)
  \/ \E tm \in timers : RetryTimer(tm)

\* new BatchProcessor({ batchSize: 1, maxQueueSize: 2, maxRetry: 2, ... })
SpecBackoff ==
  /\ BuiltOpts([batchSize |-> SingleBatchSizeOpt,
                maxQueueSize |-> DeepMaxQueueSizeOpt,
                maxRetry |-> LongMaxRetryOpt],
               <<>>, NewAIAnalyzer(TRUE, MaxMessagesOpt))
  /\ medium = <<>>
  /\ [][NextBackoff]_vars

(* ---------------- the AIAnalyzer's delivery function ---------------- *)
\* this._trimMessageHistory(): the analyzer after the call
_trimMessageHistory(a) ==
  IF Len(a.messages) <= a.maxMessages + 1 THEN a
  ELSE LET n == Len(a.messages)
           kept == <<a.messages[1]>> \o SubSeq(a.messages, n - a.maxMessages + 1, n)
       IN [a EXCEPT !.messages = kept, !.stored = kept]

\* the synchronous part of the delivery function runs for every call of
\* processBatchFn that the handler has started
AIStarts(a) == IF calls' \ calls # {} THEN _trimMessageHistory(a) ELSE a

\* the response is one the function accepts
AIAccepts(res) == res.kind = "response" /\ ResOk(res.status)

\* the function's part after `await fetch`: the exchange is appended to the
\* history and stored
AIAppends(a, rec, res) ==
  IF AIAccepts(res)
  THEN LET m == a.messages \o <<[role |-> "user", of |-> Bid(rec)],
                                [role |-> "assistant", of |-> Bid(rec)]>>
       IN [a EXCEPT !.messages = m, !.stored = m]
  ELSE a

\* the AIAnalyzer's processBatchFn resolves (TRUE) or rejects (FALSE): its
\* last statement is the call onSuccess(rawContent)
AIAnalyzerFn(a, res) == AIAccepts(res) /\ a.onSuccess

\* processor.enqueue(item) of the AIAnalyzer
AIEnqueue(key) ==
  /\ EnqueueItem(key, NoPage, FALSE, FALSE)
  /\ ai' = AIStarts(ai)

\* the fetch of the batch in delivery has ended with res
AISettles(rec, res) ==
  /\ IF AIAnalyzerFn(ai, res) THEN Resolved(rec, res.status)
     ELSE Rejected(rec, res.status)
  /\ ai' = AIStarts(AIAppends(ai, rec, res))

\* the retry timer of the AIAnalyzer's processor
AIRetry(tm) ==
  /\ RetryFires(tm, FALSE)
  /\ ai' = AIStarts(ai)

\* an AIAnalyzer constructed with or without the onSuccess option
InitAI(maxMessages) ==
  \E onSuccess \in BOOLEAN :
    /\ BuiltWith(BatchSizeOpt, MaxQueueSizeOpt, <<>>,
                 NewAIAnalyzer(onSuccess, maxMessages))
    /\ medium = <<>>

NextAI ==
  \/ \E key \in Keys : AIEnqueue(key)
  \/ \E rec \in calls, res \in FetchResults : AISettles(rec, res)
  \/ \E tm \in timers : AIRetry(tm)

SpecAI == InitAI(MaxMessagesOpt) /\ [][NextAI]_vars

SmallMaxMessagesOpt == 2   \* a maxMessages that two exchanges exceed

\* new AIAnalyzer({ maxMessages: 2, ... }) with or without onSuccess
SpecTrim == InitAI(SmallMaxMessagesOpt) /\ [][NextAI]_vars

(* ---------------- the durable store on its own ---------------- *)
PersistedEntries ==
  {Triple(k, 0, PastTs) : k \in StoreKeys} \cup {Pair(k, 0) : k \in StoreKeys}
    \cup {Malformed}

\* what JSON.parse(storage.getItem(storageKey)) may give
PersistedArrays ==
  UNION {[1..n -> PersistedEntries] : n \in 0..MaxPersisted}

\* a store of capacity SmallMaxEntries restored from any persisted array; the
\* calls of NextStore never read the medium, which the page has emptied
\* (storage.removeItem) after the construction
InitStore ==
  \E arr \in PersistedArrays :
    Built(BatchSizeOpt, MaxQueueSizeOpt, arr) /\ medium = <<>>

\* a call on the store leaves the processor as it is
StoreOnly ==
  UNCHANGED <<sdkVars, ai, opts, pending, queue, processing, inFlight, calls, timers,
              polling, life, now, ticks, nextId, tried, okAt>>

\* store.set(key, Date.now()); ev.a: the key was present, ev.b: at capacity
SetOp(key) ==
  /\ store' = StoreSet(store, key, now, now, SmallMaxEntries)
  /\ touched' = [touched EXCEPT ![key] = now]
  /\ ev' = Ev("set", key, StoreHas(store, key), Len(store.order) >= SmallMaxEntries)
  /\ SetWriter(schedulePersist(Writer))
  /\ UNCHANGED medium
  /\ StoreOnly

\* store.get(key); ev.a: the key was present
GetOp(key) ==
  /\ store' = StoreGet(store, key, now)
  /\ touched' = IF StoreHas(store, key) THEN [touched EXCEPT ![key] = now]
                ELSE touched
  /\ ev' = Ev("get", key, StoreHas(store, key), FALSE)
  /\ SetWriter(IF StoreHas(store, key) THEN schedulePersist(Writer) ELSE Writer)
  /\ UNCHANGED medium
  /\ StoreOnly

\* store.delete(key); ev.a: the result
DeleteOp(key) ==
  /\ store' = StoreDelete(store, key)
  /\ ev' = Ev("delete", key, StoreHas(store, key), FALSE)
  /\ SetWriter(IF StoreHas(store, key) THEN schedulePersist(Writer) ELSE Writer)
  /\ UNCHANGED <<touched, medium>>
  /\ StoreOnly

ClearOp_keepsItem ==
  /\ store' = EmptyStore
  /\ ev' = Ev("clear", NoPage, FALSE, FALSE)
  /\ UNCHANGED <<touched, medium, pendingPersist, idle>>
  /\ StoreOnly

\* store.clear(): storage.removeItem(storageKey); a scheduled write stays
\* scheduled
ClearOp ==
  /\ store' = EmptyStore
  /\ medium' = <<>>
  /\ ev' = Ev("clear", NoPage, FALSE, FALSE)
  /\ UNCHANGED <<touched, pendingPersist, idle>>
  /\ StoreOnly

\* store.has(key); ev.a: the result
HasOp(key) ==
  /\ ev' = Ev("has", key, StoreHas(store, key), FALSE)
  /\ UNCHANGED <<store, touched, medium, pendingPersist, idle>>
  /\ StoreOnly

\* store.isExpired(key, ttl); ev.a: the result, ev.n: the ttl
IsExpiredOp(key, ttl_) ==
  /\ ev' = [Ev("isExpired", key, isExpired(store, key, ttl_, now), FALSE)
              EXCEPT !.n = ttl_]
  /\ UNCHANGED <<store, touched, medium, pendingPersist, idle>>
  /\ StoreOnly

NextStore ==
  \/ Tick(1)
  \/ \E key \in StoreKeys : SetOp(key)
  \/ \E key \in StoreKeys : GetOp(key)
  \/ \E key \in StoreKeys : DeleteOp(key)
  \/ ClearOp
  \/ \E key \in StoreKeys : HasOp(key)
  \/ \E key \in StoreKeys, ttl_ \in Ttls : IsExpiredOp(key, ttl_)

SpecStore == InitStore /\ [][NextStore]_vars

(* ---------------- the store and its storage medium ---------------- *)
\* variant: the access times are not written
Serialize_pairs(s) ==
  [i \in 1..Len(s.order) |-> Pair(s.order[i], s.map[s.order[i]])]

\* the array doPersist serializes: [[key, value, ts], ...]
Serialize(s) ==
  [i \in 1..Len(s.order) |->
     Triple(s.order[i], s.map[s.order[i]], s.accessTime[s.order[i]])]

MinAttempts == 10

RECURSIVE QuotaLoop(_, _, _, _, _)
\* the while loop of doPersist after a capacity-exceeded error: the next
\* `fails` writes throw that error too, the one after them gives `last`;
\* result: the store left and whether a write went through
QuotaLoop(s, fails, last, attemptCount, maxAttempts) ==
  IF Len(s.order) = 0 \/ attemptCount >= maxAttempts
  THEN [s |-> s, wrote |-> FALSE]
  ELSE LET oldestKey == s.order[OldestIdx(s)]
           s2 == StoreWithout(s, oldestKey)
       IN IF oldestKey = "" THEN [s |-> s, wrote |-> FALSE]
          ELSE IF fails = 0 THEN [s |-> s2, wrote |-> last = "ok"]
          ELSE QuotaLoop(s2, fails - 1, last, attemptCount + 1, maxAttempts)

\* variant: every error of the first write is handled as a capacity error
doPersist_anyError(s, fails, last) ==
  IF fails = 0 /\ last = "ok" THEN [s |-> s, wrote |-> TRUE]
  ELSE QuotaLoop(s, fails, last, 0, Max(MinAttempts, Len(s.order)))

\* doPersist(): the first `fails` writes throw a capacity-exceeded error
doPersist(s, fails, last) ==
  IF fails = 0 THEN [s |-> s, wrote |-> last = "ok"]
  ELSE QuotaLoop(s, fails - 1, last, 0, Max(MinAttempts, Len(s.order)))

\* the idle callback (or timer) of schedulePersist runs; ev.n: the number of
\* writes that threw a capacity-exceeded error before the one that gave
\* `last`, ev.a: a write went through, ev.b: `last` is another error
PersistOp(fails, last) ==
  /\ idle > 0
  /\ idle' = idle - 1
  /\ pendingPersist' = FALSE
  /\ LET r == doPersist(store, fails, last)
     IN /\ store' = r.s
        /\ medium' = IF r.wrote THEN Serialize(r.s) ELSE medium
        /\ ev' = [Ev("persist", NoPage, r.wrote, last # "ok") EXCEPT !.n = fails]
  /\ UNCHANGED touched
  /\ StoreOnly

\* the page is loaded again: createPersistedMap runs on what the medium holds
Reload ==
  /\ store' = Restore(medium, EmptyStore, now)
  /\ touched' = [k \in StoreKeys |-> RestoredTs(medium, k, now)]
  /\ pendingPersist' = FALSE
  /\ idle' = 0
  /\ ev' = Ev("init", NoPage, FALSE, FALSE)
  /\ UNCHANGED medium
  /\ StoreOnly

\* a store of capacity SmallMaxEntries on an empty storage, its deferred
\* writes and the page's reloads; last: the setItem after the capacity-exceeded
\* errors succeeds ("ok") or throws another error ("other")
NextMedium ==
  \/ Tick(1)
  \/ \E key \in StoreKeys : SetOp(key)
  \/ \E key \in StoreKeys : GetOp(key)
  \/ ClearOp
  \/ \E fails \in 0..(Len(store.order) + 1), last \in {"ok", "other"} :
       PersistOp(fails, last)
  \/ Reload

SpecMedium == Init /\ [][NextMedium]_vars

\* construction on any persisted array
InitRestore ==
  \E arr \in PersistedArrays : ConstructOn(BatchSizeOpt, MaxQueueSizeOpt, arr)

NextRestore ==
  \/ Tick(1)
  \/ \E key \in StoreKeys : HasOp(key)
  \/ Reload

SpecRestore == InitRestore /\ [][NextRestore]_vars

(* ---------------- the deferred write on a medium that takes it ------- *)
NextWrite ==
  \/ Tick(1)
  \/ \E key \in Keys : SetOp(key)
  \/ \E key \in Keys : GetOp(key)
  \/ \E key \in Keys : DeleteOp(key)
  \/ PersistOp(0, "ok")

\* the handler's first setItem goes through; requestIdleCallback(handler,
\* { timeout: 200 }) and setTimeout(handler, 200) both run it in the end
LiveWrite == Init /\ [][NextWrite]_vars /\ WF_vars(PersistOp(0, "ok"))

\* a processBatchFn that, call by call, returns a promise or throws
NextThrow ==
  \/ \E key \in Keys, throws \in BOOLEAN : EnqueueWith(key, NoPage, FALSE, throws)
  \/ \E rec \in calls : Success(rec)
  \/ \E rec \in calls : Failure(rec)
  \/ \E tm \in timers, throws \in BOOLEAN : RetryTimerWith(tm, throws)

SpecThrow == Init /\ [][NextThrow]_vars

\* the processor in a page: producer, page events, destroy()
NextPage ==
  \/ \E key \in Keys : EnqueuePlain(key)
  \/ BeforeUnload
  \/ \E v \in {"hidden", "visible"} : VisibilityChange(v)
  \/ FlushPoll
  \/ DestroyStart
  \/ DestroyPoll
  \/ \E rec \in calls : Success(rec)
  \/ \E rec \in calls : Failure(rec)
  \/ \E tm \in timers : RetryTimer(tm)

SpecPage == Init /\ [][NextPage]_vars

\* every invocation of processBatchFn settles, timers fire, pollers wake up
Settle == \E rec \in calls : Success(rec) \/ Failure(rec)

Retry == \E tm \in timers : RetryTimer(tm)

\* the handlers alone: the clock moves only with the retry time-outs
NextLive ==
  \/ \E key \in Keys : nextId <= MaxLiveItems /\ EnqueuePlain(key)
  \/ FlushAll
  \/ FlushPoll
  \/ \E rec \in calls : Success(rec)
  \/ \E rec \in calls : Failure(rec)
  \/ \E tm \in timers : RetryTimer(tm)

LiveSpec ==
  Init /\ [][NextLive]_vars
       /\ WF_vars(Settle) /\ WF_vars(Retry) /\ WF_vars(FlushPoll)

(* ======================= properties ======================= *)
\* the batches held in the queue, in delivery or waiting for a retry
LiveBatches(q, cs, tms) ==
  {q[i].batch : i \in 1..Len(q)} \cup {r.batch : r \in cs} \cup {r.batch : r \in tms}

\* C1: at most one invocation of processBatchFn is unsettled at any instant
OneDeliveryAtATime == Cardinality(calls) <= 1

\* C1 witness: a batch is in delivery while another one waits in the queue
\* and a flushAll is polling
W_OneDelivery == Cardinality(calls) = 1 /\ Len(queue) > 0 /\ polling > 0

\* C2: after every handler the batch queue holds at most maxQueueSize batches
QueueBounded == Len(queue) <= maxQueueSize

\* C2 witness: a retry callback has re-inserted its batch while the queue
\* was full
W_QueueBounded == ev.op = "retry" /\ Len(queue) = maxQueueSize

\* C3: every invocation is attempt retryCount + 1 of its batch and there are
\* at most maxRetry + 1 of them; a failed attempt with retryCount < maxRetry
\* leaves the batch on a retry timer, whose callback invokes processBatchFn
\* with the same items; after a success or the last failure the batch is gone
AttemptsCounted ==
  \A rec \in calls :
    /\ Bid(rec) \in DOMAIN tried
    /\ tried[Bid(rec)] = rec.retryCount + 1
    /\ tried[Bid(rec)] <= maxRetry + 1

RetryStep ==
  /\ \A tm \in timers \ timers' :
       \E r \in calls' : r.batch = tm.batch /\ r.retryCount = tm.retryCount + 1
  /\ \A rec \in calls \ calls' :
       LET waits == \E tm \in timers' : tm.batch = rec.batch
           gone == rec.batch \notin LiveBatches(queue', calls', timers')
       IN IF ev'.op = "success" THEN gone
          ELSE IF rec.retryCount < maxRetry THEN waits ELSE gone

RetryContract == []AttemptsCounted /\ [][RetryStep]_vars

\* C3 witness: the last allowed attempt of a batch is in delivery
W_RetryContract ==
  \E rec \in calls : rec.retryCount = maxRetry /\ tried[Bid(rec)] = maxRetry + 1

FlushOps == {"flushAll", "beforeunload", "hidden"}

\* C4 (as claimed): two successful deliveries of batches with the same key
\* are at least ttl apart
TtlSeparation ==
  [][\A rec \in calls \ calls' :
       ev'.op = "success" =>
         \A k \in KeysOf(rec.batch) : okAt[k] >= 0 => now' - okAt[k] >= ttl]_vars

\* C5 (as claimed): an item enqueued less than ttl after a successful
\* delivery of its key is not kept anywhere in the processor
EnqueueStep == ev'.op = "enqueue" /\ ticks' = ticks

DroppedInWindow ==
  [][(EnqueueStep /\ ev'.b) =>
       \A it \in ItemsIn(P', timers') : it.id # nextId]_vars

\* C6: enqueue of an item whose key is in flight leaves the length of the
\* pending list unchanged and forms no batch
InFlightNotAdmitted ==
  [][(EnqueueStep /\ ev'.a) =>
       /\ Len(pending') = Len(pending)
       /\ queue' = queue
       /\ calls' = calls
       /\ inFlight' = inFlight]_vars

\* C6 witness: enqueue was called with a key in flight while an item waited
\* in the pending list
W_InFlightNotAdmitted == ev.op = "enqueue" /\ ev.a /\ Len(pending) > 0

\* the records of the queue, as a set
QueueRecs(q) == {q[i] : i \in 1..Len(q)}

\* the records that entered the queue or delivery in this step
NewRecs ==
  {r \in QueueRecs(queue') \cup calls' :
     r.batch \notin LiveBatches(queue, calls, timers)}

\* C7: a batch formed by enqueue has exactly batchSize items and one formed
\* by flushAll between 1 and batchSize; enqueue forms a batch exactly when
\* the pending list reaches batchSize items, from the oldest items in order
SizeOk(r) ==
  IF r.by = "enqueue" THEN Len(r.batch) = batchSize
  ELSE r.by = "flushAll" /\ Len(r.batch) >= 1 /\ Len(r.batch) <= batchSize

BatchSizesOk ==
  \A r \in QueueRecs(queue) \cup calls \cup timers : SizeOk(r)

FormStep ==
  /\ (EnqueueStep /\ nextId' # nextId) =>
       IF Len(pending) + 1 >= batchSize
       THEN /\ pending' = <<>>
            /\ IF Len(queue) >= maxQueueSize
               THEN NewRecs = {}
               ELSE \E r \in NewRecs :
                      /\ NewRecs = {r}
                      /\ r.by = "enqueue"
                      /\ Len(r.batch) = batchSize
                      /\ SubSeq(r.batch, 1, Len(pending)) = pending
                      /\ r.batch[batchSize].id = nextId
       ELSE /\ Len(pending') = Len(pending) + 1
            /\ SubSeq(pending', 1, Len(pending)) = pending
            /\ pending'[Len(pending')].id = nextId
            /\ NewRecs = {}
  /\ \A r \in NewRecs : r.by = "enqueue" <=> ev'.op = "enqueue"

BatchFormation == []BatchSizesOk /\ [][FormStep]_vars

\* C7 witness: a full batch formed by enqueue is in delivery while a partial
\* batch formed by flushAll waits in the queue
W_BatchFormation ==
  /\ \E r \in calls : r.by = "enqueue" /\ Len(r.batch) = batchSize
  /\ \E r \in QueueRecs(queue) : r.by = "flushAll" /\ Len(r.batch) < batchSize

\* C8: when a flushAll call resolves, the queue is empty, no delivery is in
\* progress and no failed batch waits for its retry timer
FlushResolvedIdle ==
  (ev.op \in FlushOps \cup {"poll"} /\ ev.a) =>
     queue = <<>> /\ calls = {} /\ timers = {} /\ ~processing

\* C8 witness: a polling flushAll has just resolved
W_FlushResolvedIdle == ev.op = "poll" /\ ev.a

\* C9: every flushAll call that is polling eventually resolves
FlushTerminates == (polling > 0) ~> (polling = 0)

\* C9 witness: a flushAll polls while a failed batch waits for its retry
W_FlushTerminates == polling > 0 /\ timers # {}

\* C10 (as claimed): flushAll moves every pending item into a batch that is
\* placed in the queue or in delivery, and leaves the pending list empty
FlushStep == ev'.op \in FlushOps /\ ticks' = ticks

PageFlushStep == ev'.op \in {"beforeunload", "hidden"} /\ life = "listening"

SameKeyClose ==
  {i \in 1..Len(pending) :
     pending[i].key = ev'.key /\ Abs(pending[i].timestamp - now) < 500}

\* the pending entries whose pageName is the key of the item just enqueued
\* and whose timestamp is less than 500 ms from its own
PageNameClose ==
  {i \in 1..Len(pending) :
     pending[i].pageName = ev'.key /\ Abs(pending[i].timestamp - now) < 500}

\* what a collapse into the entries `hits` leaves behind: the first of them
\* becomes the new item if it has no LCP/FCP and the new item has, nothing
\* else changes and no batch is formed
Collapsed(hits) ==
  LET i == CHOOSE x \in hits : \A y \in hits : x <= y
  IN /\ Len(pending') = Len(pending)
     /\ \A j \in 1..Len(pending) : j # i => pending'[j] = pending[j]
     /\ IF ~pending[i].nav /\ ev'.nav
        THEN /\ pending'[i].id = nextId /\ pending'[i].key = ev'.key
             /\ pending'[i].timestamp = now /\ pending'[i].nav
        ELSE pending'[i] = pending[i]
     /\ queue' = queue /\ calls' = calls /\ inFlight' = inFlight

\* C12 (as claimed): enqueue of an item whose key and time are those of a
\* pending item collapses the two into one pending entry
CoalesceSameKey ==
  [][(EnqueueStep /\ SameKeyClose # {}) => Collapsed(SameKeyClose)]_vars

\* C12 (amended): the pending item is matched by its pageName, not its key
CoalescePageName ==
  [][(EnqueueStep /\ PageNameClose # {}) => Collapsed(PageNameClose)]_vars

\* C12 witness: a snapshot with LCP/FCP has replaced a pending entry that is
\* not the last one
W_CoalescePageName ==
  /\ ev.op = "enqueue" /\ ev.nav
  /\ \E i \in 1..(Len(pending) - 1) : pending[i].id = nextId - 1

QueueInOrder ==
  /\ \A i \in 1..Len(queue) : queue[i].retryCount = 0
  /\ \A i, j \in 1..Len(queue) : i < j => Bid(queue[i]) < Bid(queue[j])
  /\ \A r \in calls \cup timers : \A i \in 1..Len(queue) : Bid(r) < Bid(queue[i])

StartStep ==
  /\ \A r \in calls' \ calls :
       r.retryCount = 0 => \A q \in QueueRecs(queue) : Bid(r) <= Bid(q)
  /\ \A tm \in timers \ timers' :
       /\ \E r \in calls' : Bid(r) = Bid(tm) /\ r.retryCount = tm.retryCount + 1
       /\ queue' = queue

FifoDelivery == []QueueInOrder /\ [][StartStep]_vars

\* C14 witness: a retry callback has put its batch in delivery ahead of two
\* batches that wait in the queue
W_FifoDelivery ==
  /\ ev.op = "retry" /\ Len(queue) = 2
  /\ \E r \in calls : r.retryCount = 1

\* C15: when an attempt succeeds, the store holds the completion time for
\* every key of the batch, these keys are not in flight, and the lock is
\* free unless the next queued batch has started its delivery
SuccessStep ==
  \A rec \in calls \ calls' :
    ev'.op = "success" =>
      /\ \A k \in KeysOf(rec.batch) :
           /\ StoreHas(store', k)
           /\ store'.map[k] = now /\ store'.accessTime[k] = now
           /\ ~isExpired(store', k, ttl, now)
           /\ k \notin inFlight'
      /\ inFlight' = inFlight \ KeysOf(rec.batch)
      /\ IF queue = <<>>
         THEN ~processing' /\ calls' = {} /\ queue' = <<>>
         ELSE processing' /\ calls' = {Head(queue)} /\ queue' = Tail(queue)

SuccessRecorded == [][SuccessStep]_vars

\* C15 witness: a batch has been delivered and the next one is in delivery
W_SuccessRecorded ==
  /\ ev.op = "success" /\ Cardinality(calls) = 1
  /\ \E k \in Keys : StoreHas(store, k) /\ k \notin inFlight

\* C16: no call of enqueue and no retry callback ends with an exception of
\* processBatchFn; the failed batch is handled inside the processor: the
\* lock is held only for an unsettled invocation or a pending retry, and
\* batches wait in the queue only while the lock is held
NoEscape ==
  /\ ~ev.threw
  /\ processing => (calls # {} \/ timers # {})
  /\ queue # <<>> => processing

\* C16 witness: the batch formed by the last enqueue was handed to a
\* processBatchFn that threw, and now waits for its retry
W_NoEscape ==
  /\ ev.op = "enqueue" /\ calls = {}
  /\ \E tm \in timers :
       tm.retryCount = 0 /\ tm.batch[Len(tm.batch)].id = nextId - 1

\* a handler has just formed a batch while the queue held maxQueueSize batches
FormedWhenFull ==
  /\ Len(queue) >= maxQueueSize
  /\ \/ EnqueueStep /\ nextId' # nextId /\ Len(pending) + 1 >= batchSize
     \/ FlushStep /\ pending # <<>>

\* C17: a batch formed while the queue is full is dropped: the queue, the
\* in-flight set, the store and the deliveries are unchanged and the items
\* of the batch are held nowhere, so they never reach processBatchFn
DropStep ==
  FormedWhenFull =>
    /\ queue' = queue /\ inFlight' = inFlight /\ store' = store
    /\ calls' = calls /\ timers' = timers /\ processing' = processing
    /\ pending' = <<>>
    /\ \A it \in ItemsIn(P', timers') :
         it.id # nextId /\ it \notin SeqToSet(pending)

SizeWithinCapacity == Len(store.order) <= SmallMaxEntries

(* ---------------- C19 ---------------- *)
\* a step of set(key, value)
IsSetStep == ev'.op = "set" /\ now' = now

\* C19: set of a new key at capacity removes exactly one entry, one whose last
\* access (most recent set or successful get) is the earliest; any other set
\* removes nothing
EvictStep ==
  LET K == SeqToSet(store.order)
      K2 == SeqToSet(store'.order)
  IN IsSetStep =>
       IF ~ev'.a /\ ev'.b
       THEN \E k \in K :
              /\ \A j \in K : touched[k] <= touched[j]
              /\ K2 = (K \ {k}) \cup {ev'.key}
       ELSE K2 = K \cup {ev'.key}

EvictsOldest == [][EvictStep]_vars

(* ---------------- C20 ---------------- *)
\* the result of an isExpired(key, ttl) call is: key absent, or at least ttl
\* since its last access
IsExpiredStep ==
  (ev'.op = "isExpired" /\ now' = now) =>
    (ev'.a <=> (~StoreHas(store, ev'.key) \/ now - touched[ev'.key] >= ev'.n))

\* isExpired and has leave every access time as it was
ReadOnlyStep ==
  (ev'.op \in {"isExpired", "has"} /\ now' = now) =>
    /\ store'.accessTime = store.accessTime
    /\ touched' = touched

\* C20: isExpired(key, ttl) is true exactly when the key is absent or
\* now - last access >= ttl, and neither isExpired nor has changes an access time
IsExpiredContract == [][IsExpiredStep /\ ReadOnlyStep]_vars

\* isExpired was asked exactly ttl > 0 after the key's last access
W_IsExpiredContract ==
  /\ ev.op = "isExpired"
  /\ ev.n > 0
  /\ StoreHas(store, ev.key)
  /\ now - touched[ev.key] = ev.n
  /\ ev.a


(* ---------------- C21 ---------------- *)
\* a run of the deferred write in which no write fails for another reason
\* than the medium's capacity
IsQuotaPersist == ev'.op = "persist" /\ now' = now /\ ~ev'.b

\* C21: after a capacity-exceeded error the store evicts one entry per failed
\* write, earliest last access first, until a write succeeds or the store is
\* empty; the kept entries are untouched and the medium holds what was
\* written last
QuotaStep ==
  LET K == SeqToSet(store.order)
      K2 == SeqToSet(store'.order)
  IN IsQuotaPersist =>
       /\ K2 \subseteq K
       /\ Cardinality(K \ K2) =
            (IF ev'.n <= Cardinality(K) THEN ev'.n ELSE Cardinality(K))
       /\ \A e \in K \ K2, k \in K2 : touched[e] <= touched[k]
       /\ \A k \in K2 : /\ store'.map[k] = store.map[k]
                        /\ store'.accessTime[k] = store.accessTime[k]
       /\ ev'.a \/ K2 = {}
       /\ ev'.a <=> ev'.n <= Cardinality(K)
       /\ medium' = IF ev'.a THEN Serialize(store') ELSE medium
       /\ ~ev'.threw

QuotaEvictsInOrder == [][QuotaStep]_vars


(* ---------------- C22 ---------------- *)
\* entry i of the medium is the last well-formed entry of its key
LastOfKey(i) ==
  /\ medium[i].kind # "bad"
  /\ \A j \in (i + 1)..Len(medium) :
       medium[j].kind = "bad" \/ medium[j].k # medium[i].k

RestoresEmpty(m) == Restore(m, EmptyStore, now) = EmptyStore

\* clear() leaves the store empty and the medium erased, and so does the
\* deferred write that was scheduled before it
ClearStep ==
  /\ (ev'.op = "clear" /\ now' = now) =>
       /\ Len(store'.order) = 0
       /\ \A k \in StoreKeys :
            ~StoreHas(store', k) /\ \A ttl_ \in Ttls : isExpired(store', k, ttl_, now)
       /\ RestoresEmpty(medium')
  /\ (ev.op = "clear" /\ ev'.op = "persist") =>
       Len(store'.order) = 0 /\ RestoresEmpty(medium')

\* C23: after clear() the store is empty and a store constructed on the same
\* storage key is empty, also once a write scheduled before the clear has run
ClearErases == [][ClearStep]_vars

\* clear() was called while a deferred write was scheduled
W_ClearErases ==
  /\ ev.op = "clear"
  /\ pendingPersist
  /\ Len(store.order) = 0
  /\ medium = <<>>


(* ---------------- C24 ---------------- *)
\* what a flush would change
FlushTouches == <<pending, queue, processing, inFlight, calls, polling, tried>>

\* destroy() takes the listeners off and flushes in its first handler; when it
\* resolves nothing is pending, queued or in delivery; a page event after the
\* call of destroy() changes nothing
DestroyStep ==
  /\ ev'.op = "destroy" => life' # "listening" /\ pending' = <<>>
  /\ (life # "destroyed" /\ life' = "destroyed") =>
       /\ pending' = <<>> /\ queue' = <<>>
       /\ ~processing' /\ calls' = {} /\ timers' = {}
  /\ (life # "listening" /\ ev'.op \in {"beforeunload", "hidden"}) =>
       UNCHANGED FlushTouches

\* C24: destroy() unregisters the listeners, performs one flushAll() and then
\* clears the pending list and the queue; once it has resolved no delivery is
\* in progress and page events start no flush
DestroyContract == [][DestroyStep]_vars

\* a page event arrived after destroy() resolved, with an item pending
W_DestroyContract ==
  /\ life = "destroyed"
  /\ ev.op \in {"beforeunload", "hidden"}
  /\ pending # <<>>


(* ---------------- C25 ---------------- *)
\* a delivery has just ended
IsSettleStep == ev'.op \in {"success", "retryLater", "giveUp"}

\* C25: a report whose request failed in transport or got a non-success
\* response is a delivery error: nothing is recorded in the durable store and
\* the batch is retried while retryCount < maxRetry
DeliveryErrorStep ==
  (IsSettleStep /\ ~ResOk(ev'.n)) =>
    /\ ev'.op # "success"
    /\ store' = store
    /\ \A rec \in calls \ calls' :
         IF rec.retryCount < maxRetry
         THEN \E tm \in timers' \ timers : Bid(tm) = Bid(rec)
         ELSE timers' = timers

ErrorsAreRetried == [][DeliveryErrorStep]_vars


(* ---------------- C26 ---------------- *)
\* dataCache.enqueue(snapshot) ran after both subscribers had subscribed
BothSubscribed(g) == g.subscribed = {"reporter", "ai"}

\* C26: once the Reporter and the AIAnalyzer have both subscribed, every
\* snapshot given to dataCache.enqueue reaches the enqueue of both processors
\* as { key: snapshot.pageName, ...snapshot }
ForwardStep ==
  (BothSubscribed(got) /\ Len(dataCache'.queue) = Len(dataCache.queue) + 1) =>
    LET snapshot == dataCache'.queue[Len(dataCache'.queue)]
        item == [key |-> snapshot.pageName, pageName |-> snapshot.pageName]
    IN /\ got'.reporter = Append(got.reporter, item)
       /\ got'.ai = Append(got.ai, item)

ForwardedToBoth == [][ForwardStep]_vars

(* ---------------- C28 ---------------- *)
\* C28: PerfCollector.destroy() stops every observer and listener and leaves
\* _observers empty, whichever way the routing was bound
PerfDestroyStep ==
  (ev'.op = "perfDestroy" /\ ~Unbound) =>
    /\ ~ev'.threw
    /\ collector'.running = {}
    /\ DOMAIN collector'._observers = {}

DestroyStopsAll == [][PerfDestroyStep]_vars


(* ---------------- C27 ---------------- *)
\* the number of user messages of batch bid in the history
Asked(a, bid) ==
  Cardinality({i \in 1..Len(a.messages) :
                 a.messages[i] = [role |-> "user", of |-> bid]})

\* C27: without the onSuccess option, a batch whose request got a successful
\* response is delivered: it is not retried and its exchange is in the
\* history once
AcceptedOnceStep ==
  (IsSettleStep /\ ResOk(ev'.n) /\ ~ai.onSuccess) =>
    /\ ev'.op = "success"
    /\ \A rec \in calls \ calls' : Asked(ai', Bid(rec)) = 1

AcceptedOnce == [][AcceptedOnceStep]_vars


(* ---------------- C29 ---------------- *)
\* a failed attempt has scheduled a retry while another batch waits
RetryLaterStep == ev'.op = "retryLater" /\ now' = now /\ queue # <<>>

\* C29 as stated: after a failed attempt that will be retried, a batch
\* waiting in the queue starts delivery at once
WaitingStartsInBackoff == [][RetryLaterStep => calls' # {}]_vars

\* C29: while a failed batch waits for its retry timer the lock is held and
\* no delivery is in progress: a waiting batch does not start before the
\* timer fires
LockHeldInBackoff == timers # {} => (processing /\ calls = {})

W_LockHeldInBackoff == timers # {} /\ queue # <<>> /\ ev.op = "retryLater"

(* ---------------- C30 ---------------- *)
\* the keys of the batches in the sequence of queue entries q
QueuedKeys(q) == UNION {KeysOf(q[i].batch) : i \in 1..Len(q)}

\* the keys of the batches that are queued, in delivery or awaiting a retry
UnresolvedKeys ==
  QueuedKeys(queue) \cup UNION {KeysOf(rec.batch) : rec \in calls}
                    \cup UNION {KeysOf(tm.batch) : tm \in timers}

\* C30: the in-flight set is the set of keys of the unresolved batches
InFlightIsUnresolved == inFlight = UnresolvedKeys


(* ---------------- C31 ---------------- *)
\* the keys of the batches that await a retry
BackoffKeys == UNION {KeysOf(tm.batch) : tm \in timers}

\* the keys of the batches that are queued or in delivery
WaitingKeys == QueuedKeys(queue) \cup UNION {KeysOf(rec.batch) : rec \in calls}

\* an item is enqueued whose key is in a batch that awaits its retry and in
\* no other batch, outside the key's window
BackoffEnqueueStep ==
  /\ ev'.op = "enqueue" /\ now' = now
  /\ ev'.key \in BackoffKeys \ WaitingKeys
  /\ ~ev'.b

\* C31: an item enqueued during the backoff of a batch with its key is not
\* in flight and is admitted; it is kept unless it completes a batch that
\* the full queue drops
AdmittedInBackoff ==
  [][BackoffEnqueueStep =>
       /\ ~ev'.a
       /\ (Len(pending) + 1 < batchSize \/ Len(queue) < maxQueueSize)
            => nextId' = nextId + 1]_vars

\* two undelivered batches hold the same key
W_AdmittedInBackoff == BackoffKeys \cap WaitingKeys # {}


(* ---------------- C32 ---------------- *)
\* the batch with the id bid is queued, in delivery or awaits a retry
Held(bid, q, cs, tms) ==
  \/ \E i \in 1..Len(q) : Bid(q[i]) = bid
  \/ \E r \in cs : Bid(r) = bid
  \/ \E tm \in tms : Bid(tm) = bid

\* an attempt has failed and the catch branch has given up
GiveUpStep == ev'.op = "giveUp" /\ now' = now

\* what the claim says of the batch rec that was given up
Dropped(rec) ==
  /\ rec.retryCount >= maxRetry
  /\ ~Held(Bid(rec), queue', calls', timers')
  /\ KeysOf(rec.batch) \cap inFlight' = {}
  /\ store' = store /\ okAt' = okAt
  /\ IF queue = <<>>
     THEN ~processing' /\ calls' = {}
     ELSE /\ processing' /\ queue' = Tail(queue)
          /\ \E r \in calls' : Bid(r) = Bid(queue[1])

\* C32: a batch whose last allowed attempt fails is dropped for good, its
\* marks are cleared, nothing is stored and the drain goes on
DroppedForGood == [][GiveUpStep => \A rec \in calls : Dropped(rec)]_vars

W_DroppedForGood == ev.op = "giveUp" /\ calls # {}


(* ---------------- C33 ---------------- *)
\* the timer set in this step is the one of the failed batch rec, due
\* 10 * 2^n ms after the failure
FailedNow(rec) == \A tm \in timers' \ timers :
                     /\ Bid(tm) = Bid(rec)
                     /\ tm.retryCount = rec.retryCount
                     /\ tm.due = now + 10 * (2 ^ rec.retryCount)

\* C33: the retry after a failed attempt with retry count n starts no
\* earlier than 10 * 2^n ms after the failure and carries retry count n + 1
BackoffStep ==
  /\ (ev'.op = "retryLater" /\ now' = now) =>
       /\ timers' # timers
       /\ \A rec \in calls : rec.retryCount < maxRetry /\ FailedNow(rec)
  /\ ev'.op = "retry" =>
       \A tm \in timers \ timers' :
         /\ now' >= tm.due
         /\ \E r \in calls' : Bid(r) = Bid(tm) /\ r.retryCount = tm.retryCount + 1

OneHandler == idle = (IF pendingPersist THEN 1 ELSE 0)

\* the handler has run and the medium holds what the store holds
Written == ev.op = "persist" /\ ev.a /\ medium = Serialize(store)

\* a mutation marks the write as pending
MutationStep ==
  (ev'.op \in {"set", "delete", "get"} /\ now' = now /\ store' # store)
    => pendingPersist'

\* the handler writes the state of the store once
WriteStep ==
  (ev'.op = "persist" /\ now' = now) =>
    (idle = 1 /\ idle' = 0 /\ ~pendingPersist' /\ medium' = Serialize(store))

\* C34: however many mutations precede the handler, one handler is
\* outstanding; its write is the in-memory state at that time; and every
\* pending write is written in the end
WriteThrough ==
  /\ []OneHandler
  /\ [][MutationStep /\ WriteStep]_vars
  /\ (pendingPersist ~> Written)

\* a write is pending after a second mutation
W_WriteThrough ==
  pendingPersist /\ ev.op \in {"set", "delete", "get"} /\ medium # Serialize(store)
    /\ Len(store.order) = 2


(* ---------------- C35 ---------------- *)
\* the handler ran and its last write threw an error that is not a
\* capacity error, after ev.n writes that threw a capacity error
OtherErrorStep == ev'.op = "persist" /\ now' = now /\ ev'.b

\* C35: a write that fails with another error is abandoned: the medium is
\* not written, and the store loses no entry and no access time through it
\* (an entry is evicted only for a capacity error that preceded it)
AbandonedStep ==
  OtherErrorStep =>
    /\ ~ev'.a /\ medium' = medium
    /\ touched' = touched
    /\ ev'.n = 0 => store' = store
    /\ Len(store'.order) >= Len(store.order) - ev'.n
    /\ \A k \in SeqToSet(store'.order) :
         /\ StoreHas(store, k)
         /\ store'.map[k] = store.map[k]
         /\ store'.accessTime[k] = store.accessTime[k]

WriteAbandoned == [][AbandonedStep]_vars

W_WriteAbandoned ==
  /\ ev.op = "persist" /\ ev.b /\ ev.n = 0
  /\ store.order # <<>> /\ medium # Serialize(store)


(* ---------------- C36 ---------------- *)
\* the page is loaded again while the medium holds the completed write of
\* the store as it is
ReloadStep ==
  ev'.op = "init" /\ now' = now /\ medium = Serialize(store) /\ ~pendingPersist

\* C36: the store restored from a completed write has the same entries and
\* access times, and isExpired answers the same for every key and ttl
RoundTripStep ==
  ReloadStep =>
    /\ store' = store
    /\ \A k \in StoreKeys, ttl_ \in Ttls :
         isExpired(store', k, ttl_, now') = isExpired(store, k, ttl_, now)

Bounded(h) ==
  /\ Len(h) >= 1 /\ h[1] = SystemMessage
  /\ Len(h) <= ai.maxMessages + 1

\* C37: the history in memory and in sessionStorage is the system message
\* and at most maxMessages further messages
HistoryBounded == Bounded(ai.messages) /\ Bounded(ai.stored)


(* ---------------- C38 ---------------- *)
\* a queued batch has a delivery or a retry timer ahead of it
Draining == queue # <<>> => (calls # {} \/ timers # {})

\* no batch is queued, in delivery or awaiting a retry
Drained == queue = <<>> /\ calls = {} /\ timers = {}

\* C38: the drain never stalls, and when every call settles every admitted
\* batch leaves the processor, delivered or dropped: whatever is held, the
\* processor is drained again later
NeverStalls == []Draining /\ []<>Drained

\* a batch waits in the queue behind a batch that awaits its retry
W_NeverStalls == queue # <<>> /\ timers # {} /\ calls = {}


(* ---------------- C39 ---------------- *)
\* C39: between calls the pending list holds fewer than batchSize items
PendingBelowBatchSize == Len(pending) < batchSize

\* the pending list is one short of a batch after an enqueue
W_PendingBelowBatchSize ==
  ev.op = "enqueue" /\ Len(pending) = batchSize - 1 /\ batchSize > 1

(* ---------------- C40 ---------------- *)
\* C40: when nothing is queued, in delivery or awaiting a retry, no key is
\* in flight
NoStaleMarks == Drained => inFlight = {}

\* the processor is drained after a delivery and a drop
W_NoStaleMarks ==
  Drained /\ ev.op \in {"success", "giveUp"} /\ inFlight = {} /\ nextId > 2

====
